---- MODULE Spec2Model ----
(***************************************************************************)
(* Model of the Know Your City extraction tools:                           *)
(*   tools/download_nigeria_settlements.py   (attribute coercion, the      *)
(*       per-settlement batch loop, the shapefile bundle writer)           *)
(*   tools/extract_atlas_of_informality.py   (ESRI geometry conversion,    *)
(*       the web-map layer export)                                         *)
(* Python strings are sequences of one-character strings.  A Python call   *)
(* is modelled by its outcome: the value returned, or the class of the     *)
(* exception raised.                                                       *)
(***************************************************************************)
EXTENDS Integers, Sequences, FiniteSets, TLC

VARIABLES
    \* attribute coercion (_safe_float, _safe_int, _format_date)
    raw_value, float_result, int_result, date_result,
    \* build_parsed_records
    settlements, idx, parsed, failures, events, pc,
    \* convert_geometry
    geometry, geometry_type, converted,
    \* process_webmap / export_feature_collection
    data, layer_pos, disk, exported_paths, wm_pc,
    \* write_shapefile
    records, sf_files, sf_zip, sf_pos, sf_pc

coerceVars == <<raw_value, float_result, int_result, date_result>>
batchVars == <<settlements, idx, parsed, failures, events, pc>>
geomVars == <<geometry, geometry_type, converted>>
webmapVars == <<data, layer_pos, disk, exported_paths, wm_pc>>
shapeVars == <<records, sf_files, sf_zip, sf_pos, sf_pc>>
vars == <<coerceVars, batchVars, geomVars, webmapVars, shapeVars>>
coerceOthers == <<batchVars, geomVars, webmapVars, shapeVars>>
batchOthers == <<coerceVars, geomVars, webmapVars, shapeVars>>
geomOthers == <<coerceVars, batchVars, webmapVars, shapeVars>>
webmapOthers == <<coerceVars, batchVars, geomVars, shapeVars>>
shapeOthers == <<coerceVars, batchVars, geomVars, webmapVars>>

(***************************************************************************)
(* Bounds of the model.                                                    *)
(***************************************************************************)
MaxItems == 3
MaxRings == 3
MaxRingLen == 2
MaxLayers == 2
MaxRecords == 2

(***************************************************************************)
(* Call outcomes and Python values.                                        *)
(***************************************************************************)
NoExc == "none"
Ret(v) == [exc |-> NoExc, val |-> v]
Raise(e, dflt) == [exc |-> e, val |-> dflt]
Raised(o) == o.exc # NoExc

\* A Python float: finite num/den, or an infinity (num is its sign), or nan.
Fin(n, d) == [k |-> "fin", num |-> n, den |-> d]
Inf(sgn) == [k |-> "inf", num |-> sgn, den |-> 1]
NaN == [k |-> "nan", num |-> 0, den |-> 1]
FloatEq(a, b) ==
    /\ a.k # "nan" /\ b.k # "nan"
    /\ a.k = b.k
    /\ IF a.k = "fin" THEN a.num * b.den = b.num * a.den ELSE a.num = b.num

\* Optional[...]: None or a value.
None == [some |-> FALSE, f |-> Fin(0, 1)]
Some(f) == [some |-> TRUE, f |-> f]

\* A decoded JSON value: null, a bool, an int, a float, a string, a list.
JNull == [t |-> "null", s |-> <<>>, f |-> Fin(0, 1)]
JBool(b) == [t |-> "bool", s |-> <<>>, f |-> Fin(IF b THEN 1 ELSE 0, 1)]
JInt(n) == [t |-> "int", s |-> <<>>, f |-> Fin(n, 1)]
JFloat(x) == [t |-> "float", s |-> <<>>, f |-> x]
JStr(s) == [t |-> "str", s |-> s, f |-> Fin(0, 1)]
JList == [t |-> "list", s |-> <<>>, f |-> Fin(1, 1)]

\* Python truthiness of a decoded JSON value (JList stands for a non-empty list).
Truthy(v) ==
    CASE v.t = "null" -> FALSE
      [] v.t \in {"bool", "int", "float"} -> ~(v.f.k = "fin" /\ v.f.num = 0)
      [] v.t = "str" -> v.s # <<>>
      [] OTHER -> TRUE

(***************************************************************************)
(* str methods.                                                            *)
(***************************************************************************)
UpperCs == <<"A","B","C","D","E","F","G","H","I","J","K","L","M",
             "N","O","P","Q","R","S","T","U","V","W","X","Y","Z">>
LowerCs == <<"a","b","c","d","e","f","g","h","i","j","k","l","m",
             "n","o","p","q","r","s","t","u","v","w","x","y","z">>
Digits == <<"0","1","2","3","4","5","6","7","8","9">>

IsSpace(c) == c \in {" ", "\t", "\n"}
IsDigit(c) == \E i \in 1..10 : Digits[i] = c
DigitVal(c) == (CHOOSE i \in 1..10 : Digits[i] = c) - 1
IsLowerAlnum(c) == IsDigit(c) \/ \E i \in 1..26 : LowerCs[i] = c

LowerChar(c) ==
    IF \E i \in 1..26 : UpperCs[i] = c
    THEN LowerCs[CHOOSE i \in 1..26 : UpperCs[i] = c]
    ELSE c
Lower(s) == [i \in 1..Len(s) |-> LowerChar(s[i])]

RECURSIVE LStrip(_)
LStrip(s) == IF s # <<>> /\ IsSpace(s[1]) THEN LStrip(Tail(s)) ELSE s
RECURSIVE RStrip(_)
RStrip(s) ==
    IF s # <<>> /\ IsSpace(s[Len(s)]) THEN RStrip(SubSeq(s, 1, Len(s) - 1)) ELSE s
Strip(s) == RStrip(LStrip(s))

Contains(s, c) == \E i \in 1..Len(s) : s[i] = c
FirstIndex(s, c) == CHOOSE i \in 1..Len(s) : s[i] = c /\ \A j \in 1..(i - 1) : s[j] # c
\* text.split(c, 1)[0]
BeforeFirst(s, c) == IF Contains(s, c) THEN SubSeq(s, 1, FirstIndex(s, c) - 1) ELSE s

\* text.split(c)
RECURSIVE Split(_, _)
Split(s, c) ==
    IF Contains(s, c)
    THEN <<SubSeq(s, 1, FirstIndex(s, c) - 1)>>
             \o Split(SubSeq(s, FirstIndex(s, c) + 1, Len(s)), c)
    ELSE <<s>>

AllDigits(s) == \A i \in 1..Len(s) : IsDigit(s[i])
RECURSIVE DigitsVal(_)
DigitsVal(s) ==
    IF s = <<>> THEN 0
    ELSE DigitsVal(SubSeq(s, 1, Len(s) - 1)) * 10 + DigitVal(s[Len(s)])
RECURSIVE Pow10(_)
Pow10(n) == IF n = 0 THEN 1 ELSE 10 * Pow10(n - 1)

(***************************************************************************)
(* float(str), float(number), round(float).                                *)
(* Exponent notation and digit-group underscores are outside the inputs    *)
(* drawn below and are rejected here.                                      *)
(***************************************************************************)
ParseDecimal(sgn, body) ==
    LET parts == Split(body, ".")
        ip == parts[1]
        fp == IF Len(parts) = 2 THEN parts[2] ELSE <<>>
    IN  IF /\ Len(parts) <= 2
           /\ AllDigits(ip) /\ AllDigits(fp)
           /\ Len(ip) + Len(fp) > 0
        THEN Ret(Fin(sgn * DigitsVal(ip \o fp), Pow10(Len(fp))))
        ELSE Raise("ValueError", NaN)

FloatOfStr(s) ==
    LET t == Strip(s)
        signed == t # <<>> /\ t[1] \in {"+", "-"}
        sgn == IF signed /\ t[1] = "-" THEN -1 ELSE 1
        body == IF signed THEN Tail(t) ELSE t
        low == Lower(body)
    IN  IF low \in {<<"i","n","f">>, <<"i","n","f","i","n","i","t","y">>}
        THEN Ret(Inf(sgn))
        ELSE IF low = <<"n","a","n">>
        THEN Ret(NaN)
        ELSE ParseDecimal(sgn, body)

\* float(value) for any decoded JSON value
FloatOf(v) ==
    CASE v.t \in {"bool", "int", "float"} -> Ret(v.f)
      [] v.t = "str" -> FloatOfStr(v.s)
      [] OTHER -> Raise("TypeError", NaN)

\* int(round(number)): round-half-to-even; nan and the infinities have no integer.
RoundHalfEven(x) ==
    LET q == x.num \div x.den
        r == x.num % x.den
    IN  IF 2 * r < x.den THEN q
        ELSE IF 2 * r > x.den THEN q + 1
        ELSE IF q % 2 = 0 THEN q ELSE q + 1

IntRound(x) ==
    CASE x.k = "nan" -> Raise("ValueError", 0)
      [] x.k = "inf" -> Raise("OverflowError", 0)
      [] OTHER -> Ret(RoundHalfEven(x))

\* float * float
FloatMul(a, b) ==
    CASE a.k = "nan" \/ b.k = "nan" -> NaN
      [] a.k = "fin" /\ b.k = "fin" -> Fin(a.num * b.num, a.den * b.den)
      [] a.k = "inf" /\ b.k = "inf" -> Inf(a.num * b.num)
      [] a.k = "inf" ->
            IF b.num = 0 THEN NaN ELSE Inf(IF b.num > 0 THEN a.num ELSE -a.num)
      [] OTHER ->
            IF a.num = 0 THEN NaN ELSE Inf(IF a.num > 0 THEN b.num ELSE -b.num)

(***************************************************************************)
(* _safe_float, _safe_int                                                  *)
(***************************************************************************)
NaWords == {<<"n","a">>, <<"n","/","a">>, <<"n","a","n">>}

\* try: return float(value) / except (TypeError, ValueError): return None
TryFloat(o) ==
    IF o.exc \in {"TypeError", "ValueError"} THEN Ret(None)
    ELSE IF Raised(o) THEN Raise(o.exc, None)
    ELSE Ret(Some(o.val))

\* the part of _safe_float after value = value.strip()
SafeFloatStripped(value, stripped) ==
    IF value.t = "str" /\ (stripped = <<>> \/ Lower(stripped) \in NaWords)
    THEN Ret(None)
    ELSE TryFloat(FloatOf(IF value.t = "str" THEN JStr(stripped) ELSE value))

_safe_float(value) ==
    IF value.t = "null" THEN Ret(None)
    ELSE IF value.t \in {"bool", "int", "float"} THEN Ret(Some(value.f))
    ELSE SafeFloatStripped(value, Strip(value.s))

\* int(round(number)); Optional[int] is carried as an Optional float with denominator 1
IntOf(r) == IF Raised(r) THEN Raise(r.exc, None) ELSE Ret(Some(Fin(r.val, 1)))

\* the part of _safe_int after number = _safe_float(value)
SafeIntOfNumber(number) ==
    IF Raised(number) THEN number
    ELSE IF ~number.val.some THEN Ret(None)
    ELSE IntOf(IntRound(number.val.f))

_safe_int(value) == SafeIntOfNumber(_safe_float(value))

(***************************************************************************)
(* datetime.strptime, datetime.fromisoformat, strftime("%d.%m.%Y")         *)
(***************************************************************************)
DaysIn(m, y) ==
    IF m = 2 THEN (IF (y % 4 = 0 /\ y % 100 # 0) \/ y % 400 = 0 THEN 29 ELSE 28)
    ELSE IF m \in {4, 6, 9, 11} THEN 30 ELSE 31

NoDate == [y |-> 0, m |-> 0, d |-> 0]
ValidDate(y, m, d) == y >= 1 /\ m \in 1..12 /\ d >= 1 /\ d <= DaysIn(m, y)

\* The four patterns of _format_date, in the order tried: separator and field order.
DateFormats ==
    << [sep |-> "-", ymd |-> TRUE], [sep |-> "-", ymd |-> FALSE],
       [sep |-> "/", ymd |-> TRUE], [sep |-> ".", ymd |-> FALSE] >>

\* %Y is four digits; %m and %d are one or two digits.
DateOf(y, m, d) ==
    IF ValidDate(y, m, d) THEN Ret([y |-> y, m |-> m, d |-> d])
    ELSE Raise("ValueError", NoDate)

DateOfFields(yf, mf, df, mdMin) ==
    IF /\ Len(yf) = 4 /\ AllDigits(yf)
       /\ Len(mf) \in mdMin..2 /\ AllDigits(mf)
       /\ Len(df) \in mdMin..2 /\ AllDigits(df)
    THEN DateOf(DigitsVal(yf), DigitsVal(mf), DigitsVal(df))
    ELSE Raise("ValueError", NoDate)

StrptimeFields(fs, ymd) ==
    IF Len(fs) # 3 THEN Raise("ValueError", NoDate)
    ELSE IF ymd THEN DateOfFields(fs[1], fs[2], fs[3], 1)
    ELSE DateOfFields(fs[3], fs[2], fs[1], 1)

strptime(text, fmt) == StrptimeFields(Split(text, fmt.sep), fmt.ymd)

\* HH:MM or HH:MM:SS
IsoTimeFields(fs) ==
    /\ Len(fs) \in 2..3
    /\ \A i \in 1..Len(fs) :
          /\ Len(fs[i]) = 2 /\ AllDigits(fs[i])
          /\ DigitsVal(fs[i]) < (IF i = 1 THEN 24 ELSE 60)
IsoTime(s) == IsoTimeFields(Split(s, ":"))

\* YYYY-MM-DD, optionally one separator character and a time of day.
IsoDateFields(fs) ==
    IF Len(fs) # 3 THEN Raise("ValueError", NoDate)
    ELSE DateOfFields(fs[1], fs[2], fs[3], 2)

fromisoformat(text) ==
    IF Len(text) = 10 \/ (Len(text) > 11 /\ IsoTime(SubSeq(text, 12, Len(text))))
    THEN IsoDateFields(Split(SubSeq(text, 1, 10), "-"))
    ELSE Raise("ValueError", NoDate)

Pad(n, width) == [i \in 1..width |-> Digits[((n \div Pow10(width - i)) % 10) + 1]]
strftime(dt) == Pad(dt.d, 2) \o <<".">> \o Pad(dt.m, 2) \o <<".">> \o Pad(dt.y, 4)

(***************************************************************************)
(* _format_date                                                            *)
(***************************************************************************)
Unknown == <<"U","n","k","n","o","w","n">>
DateVal(text, year) == [text |-> text, year |-> year]

\* for fmt in (...): try strptime, break at the first that parses; if none does,
\* try fromisoformat
RECURSIVE ParseFrom(_, _)
FirstParsed(p, text, i) == IF Raised(p) THEN ParseFrom(text, i + 1) ELSE p
ParseFrom(text, i) ==
    IF i > Len(DateFormats) THEN fromisoformat(text)
    ELSE FirstParsed(strptime(text, DateFormats[i]), text, i)

\* return raw_value, None / return parsed.strftime("%d.%m.%Y"), parsed.year
FormattedDate(raw, p) ==
    IF Raised(p) THEN Ret(DateVal(raw.s, None))
    ELSE Ret(DateVal(strftime(p.val), Some(Fin(p.val.y, 1))))

\* the part of _format_date after text = raw_value.strip()
FormatStripped(raw, text) ==
    IF text = <<>> THEN Ret(DateVal(Unknown, None))
    ELSE FormattedDate(raw, ParseFrom(BeforeFirst(text, "T"), 1))

_format_date(raw) ==
    IF ~Truthy(raw) THEN Ret(DateVal(Unknown, None))
    ELSE IF raw.t # "str" THEN Raise("AttributeError", DateVal(<<>>, None))
    ELSE FormatStripped(raw, Strip(raw.s))

(***************************************************************************)
(* Raw attribute values a decoded settlement payload can carry.            *)
(***************************************************************************)
RawTexts ==
    { <<"4","2">>,
      <<" ","3",".","7"," ">>,
      <<"-","2",".","5">>,
      <<"0">>,
      <<"1",".","2",".","3">>,
      <<".">>,
      <<>>,
      <<" "," ">>,
      <<"N","A">>,
      <<"n","/","a">>,
      <<"n","a","n">>,
      <<" ","N","a","N"," ">>,
      <<"+","n","a","n">>,
      <<"-","n","a","n">>,
      <<"i","n","f">>,
      <<"-","i","n","f">>,
      <<"I","n","f","i","n","i","t","y">>,
      <<"a","b","c">>,
      <<"2","0","2","4","-","0","3","-","0","5">>,
      <<"5","-","3","-","2","0","2","4">>,
      <<"2","0","2","4","/","0","3","/","0","5">>,
      <<"0","5",".","0","3",".","2","0","2","4">>,
      <<"2","0","2","4","-","0","3","-","0","5","T","1","0",":","0","0",":","0","0">>,
      <<"2","0","2","4","-","0","3","-","0","5"," ","1","0",":","0","0",":","0","0">>,
      <<"2","0","2","4","-","0","2","-","3","0">>,
      <<"n","o","t","-","a","-","d","a","t","e">> }
RawValues ==
    {JNull, JBool(TRUE), JBool(FALSE), JInt(0), JInt(42), JInt(-7), JList,
     JFloat(Fin(37, 10)), JFloat(Fin(25, 10)), JFloat(Inf(1)), JFloat(NaN)}
        \cup {JStr(s) : s \in RawTexts}

(***************************************************************************)
(* The coercion rules applied to one raw value.                            *)
(***************************************************************************)
Pending == "pending"
NotCalled(v) == [exc |-> Pending, val |-> v]

CoerceIdle ==
    /\ raw_value = JNull
    /\ float_result = NotCalled(None)
    /\ int_result = NotCalled(None)
    /\ date_result = NotCalled(DateVal(<<>>, None))

CallSafeFloat ==
    /\ float_result.exc = Pending
    /\ float_result' = _safe_float(raw_value)
    /\ UNCHANGED <<raw_value, int_result, date_result>>
    /\ UNCHANGED coerceOthers

CallSafeInt ==
    /\ int_result.exc = Pending
    /\ int_result' = _safe_int(raw_value)
    /\ UNCHANGED <<raw_value, float_result, date_result>>
    /\ UNCHANGED coerceOthers

CallFormatDate ==
    /\ date_result.exc = Pending
    /\ date_result' = _format_date(raw_value)
    /\ UNCHANGED <<raw_value, float_result, int_result>>
    /\ UNCHANGED coerceOthers

(***************************************************************************)
(* parse_settlement_page                                                   *)
(* A page is what session.get(settlement.url) meets: the request fails, or *)
(* it answers with text in which each of the two script blocks is missing, *)
(* is not JSON, or decodes.                                                *)
(***************************************************************************)
\* tuple comparison: the same object, or equal components
PointEq(p, q) == FloatEq(p.lon, q.lon) /\ FloatEq(p.lat, q.lat)

NoPayload ==
    [last_updated |-> JNull, profile_date |-> JNull, population |-> JNull,
     households |-> JNull, hh_size |-> JNull, area |-> JNull, structures |-> JNull]
PageVal(payload, geom, msg) == [payload |-> payload, geometry |-> geom, msg |-> msg]

\* for lat_str, lon_str in shape_raw: ... geometry.append((lon, lat))
RECURSIVE ShapePoints(_)
PointThen(lat, lon, rest) ==
    IF Raised(lat) THEN Raise(lat.exc, <<>>)
    ELSE IF Raised(lon) THEN Raise(lon.exc, <<>>)
    ELSE IF Raised(rest) THEN rest
    ELSE Ret(<<[lon |-> lon.val, lat |-> lat.val]>> \o rest.val)
ShapePoints(shape_raw) ==
    IF shape_raw = <<>> THEN Ret(<<>>)
    ELSE IF Len(shape_raw[1]) # 2 THEN Raise("ValueError", <<>>)
    ELSE PointThen(FloatOf(shape_raw[1][1]), FloatOf(shape_raw[1][2]),
                   ShapePoints(Tail(shape_raw)))

\* if geometry and geometry[0] != geometry[-1]: geometry.append(geometry[0])
CloseRing(g) ==
    IF g # <<>> /\ Len(g) > 1 /\ ~PointEq(g[1], g[Len(g)]) THEN Append(g, g[1]) ELSE g

ParsedPage(html, pts) ==
    IF Raised(pts)
    THEN Raise(pts.exc, PageVal(NoPayload, <<>>, "could not convert coordinate to float"))
    ELSE Ret(PageVal(html.payload, CloseRing(pts.val), ""))

parse_settlement_page(html) ==
    IF html.settlement = "missing"
    THEN Raise("ValueError", PageVal(NoPayload, <<>>, "Could not locate settlement payload in page"))
    ELSE IF html.settlement = "badjson"
    THEN Raise("ValueError", PageVal(NoPayload, <<>>, "JSONDecodeError in settlement payload"))
    ELSE IF html.shape = "missing"
    THEN Raise("ValueError", PageVal(NoPayload, <<>>, "Could not locate geometry payload in page"))
    ELSE IF html.shape = "badjson"
    THEN Raise("ValueError", PageVal(NoPayload, <<>>, "JSONDecodeError in geometry payload"))
    ELSE ParsedPage(html, ShapePoints(html.shape_raw))

(***************************************************************************)
(* build_parsed_records: the record built from a parsed page (lines        *)
(* 212-239); any exception here is outside the try block.                  *)
(***************************************************************************)
NoRecord ==
    [rec_id |-> 0, city |-> "", name |-> "", last_updated |-> <<>>, year |-> None,
     population |-> None, area_acres |-> None, structures |-> None, geometry |-> <<>>]

\* _safe_float(v) or 0
FloatOrZero(o) ==
    IF o.val.some /\ ~(o.val.f.k = "fin" /\ o.val.f.num = 0) THEN o.val.f ELSE Fin(0, 1)

\* not population or population <= 0
NoPopulation(o) == ~o.val.some \/ o.val.f.num <= 0

\* lines 218-222: the explicit estimate when positive, else households * size
Population(pop, computed) ==
    IF Raised(pop) THEN pop
    ELSE IF ~NoPopulation(pop) THEN Ret(pop.val)
    ELSE IF Raised(computed) THEN Raise(computed.exc, None)
    ELSE IF computed.val > 0 THEN Ret(Some(Fin(computed.val, 1)))
    ELSE Ret(None)

Computed(households, hh_size) ==
    IF Raised(households) THEN Raise(households.exc, 0)
    ELSE IF Raised(hh_size) THEN Raise(hh_size.exc, 0)
    ELSE IntRound(FloatMul(FloatOrZero(households), FloatOrZero(hh_size)))

\* the record of lines 227-239, or the first exception in the order of the calls
RecordOf(i, settlement, page, date, population, area, structures) ==
    IF Raised(date) THEN Raise(date.exc, NoRecord)
    ELSE IF Raised(population) THEN Raise(population.exc, NoRecord)
    ELSE IF Raised(area) THEN Raise(area.exc, NoRecord)
    ELSE IF Raised(structures) THEN Raise(structures.exc, NoRecord)
    ELSE Ret([rec_id |-> i,
              city |-> settlement.city,
              name |-> settlement.name,
              last_updated |-> date.val.text,
              year |-> date.val.year,
              population |-> population.val,
              area_acres |-> area.val,
              structures |-> structures.val,
              geometry |-> page.geometry])

ParsedSettlement(i, settlement, page) ==
    RecordOf(i, settlement, page,
             _format_date(IF Truthy(page.payload.last_updated)
                          THEN page.payload.last_updated
                          ELSE page.payload.profile_date),
             Population(_safe_int(page.payload.population),
                        Computed(_safe_float(page.payload.households),
                                 _safe_float(page.payload.hh_size))),
             _safe_float(page.payload.area),
             _safe_int(page.payload.structures))

(***************************************************************************)
(* The settlement pages the batch is run on: one well-formed page, and the *)
(* pages that differ from it in one place.                                 *)
(***************************************************************************)
GoodShape ==
    << <<JStr(<<"6",".","5">>), JStr(<<"3",".","4">>)>>,
       <<JStr(<<"6",".","6">>), JStr(<<"3",".","4">>)>>,
       <<JStr(<<"6",".","6">>), JStr(<<"3",".","5">>)>> >>
GoodPayload ==
    [last_updated |-> JStr(<<"2","0","2","4","-","0","3","-","0","5","T","1","0",":","0","0",":","0","0">>),
     profile_date |-> JNull,
     population |-> JStr(<<"4","2">>),
     households |-> JStr(<<"1","0">>),
     hh_size |-> JStr(<<"4",".","5">>),
     area |-> JStr(<<" ","3",".","7"," ">>),
     structures |-> JInt(12)]
GoodPage ==
    [fetch |-> "ok", settlement |-> "ok", payload |-> GoodPayload,
     shape |-> "ok", shape_raw |-> GoodShape]

Pages ==
    { GoodPage,
      [GoodPage EXCEPT !.fetch = "RequestException"],
      [GoodPage EXCEPT !.settlement = "missing"],
      [GoodPage EXCEPT !.settlement = "badjson"],
      [GoodPage EXCEPT !.shape = "missing"],
      [GoodPage EXCEPT !.shape = "badjson"],
      [GoodPage EXCEPT !.shape_raw = Append(GoodShape, GoodShape[1])],
      [GoodPage EXCEPT !.shape_raw = <<>>],
      [GoodPage EXCEPT !.shape_raw = << <<JStr(<<"6",".","5">>), JStr(<<"e","a","s","t">>)>> >>],
      [GoodPage EXCEPT !.shape_raw = << <<JStr(<<"6",".","5">>), JNull>> >>],
      [GoodPage EXCEPT !.shape_raw = <<GoodShape[1], <<JStr(<<"6",".","6">>), JStr(<<"3",".","4">>), JStr(<<"0">>)>> >>],
      [GoodPage EXCEPT !.payload.population = JNull],
      [GoodPage EXCEPT !.payload.population = JStr(<<"i","n","f">>)],
      [GoodPage EXCEPT !.payload.structures = JStr(<<"+","n","a","n">>)],
      [GoodPage EXCEPT !.payload.last_updated = JInt(2024)],
      [GoodPage EXCEPT !.payload.last_updated = JStr(<<"n","o","t","-","a","-","d","a","t","e">>)] }

SettlementRecord(i, page) ==
    [settlement_id |-> i, city |-> "Lagos", name |-> "Makoko", page |-> page]

RECURSIVE SeqsUpTo(_, _)
SeqsUpTo(S, n) ==
    IF n = 0 THEN {<<>>}
    ELSE LET shorter == SeqsUpTo(S, n - 1)
         IN  shorter \cup {Append(s, x) : s \in {t \in shorter : Len(t) = n - 1}, x \in S}

(***************************************************************************)
(* build_parsed_records: one action per way an iteration of the loop ends. *)
(* events is the order of the calls to session.get and time.sleep.         *)
(***************************************************************************)
BatchIdle ==
    /\ settlements = <<>> /\ idx = 0 /\ parsed = <<>> /\ failures = <<>>
    /\ events = <<>> /\ pc = "idle"

InLoop == pc = "loop" /\ idx <= Len(settlements)
Failure(i, reason) == [settlement |-> i, reason |-> reason]

\* lines 195-196, inside the try: session.get, then parse_settlement_page
Fetched(settlement) ==
    IF settlement.page.fetch = "ok" THEN parse_settlement_page(settlement.page)
    ELSE Raise("RequestException", PageVal(NoPayload, <<>>, "request failed"))

\* one iteration of the loop body up to its first exception: the stage it was
\* raised in ("try": lines 195-196, "build": lines 212-239), or the record built
Built(page, rec) ==
    IF Raised(page)
    THEN [stage |-> "try", exc |-> page.exc, record |-> NoRecord, msg |-> page.val.msg]
    ELSE [stage |-> "build", exc |-> rec.exc, record |-> rec.val, msg |-> ""]
Iteration(i, settlement) ==
    Built(Fetched(settlement), ParsedSettlement(i, settlement, Fetched(settlement).val))

\* failures.append((settlement, str(exc))); continue
HandleFailure(o, cls) ==
    /\ o.stage = "try"
    /\ o.exc = cls
    /\ failures' = Append(failures, Failure(idx, o.msg))
    /\ events' = Append(events, "get")
    /\ idx' = idx + 1
    /\ UNCHANGED <<settlements, parsed, pc>>
    /\ UNCHANGED batchOthers

\* an exception no handler of the loop catches leaves build_parsed_records
Propagate(o, stage) ==
    /\ o.stage = stage
    /\ o.exc # NoExc
    /\ stage = "try" => o.exc \notin {"ValueError", "RequestException"}
    /\ pc' = "raised"
    /\ events' = Append(events, "get")
    /\ UNCHANGED <<settlements, idx, parsed, failures>>
    /\ UNCHANGED batchOthers

\* parsed.append(...); time.sleep(sleep_seconds)
AppendRecord(o) ==
    /\ o.stage = "build"
    /\ o.exc = NoExc
    /\ parsed' = Append(parsed, o.record)
    /\ events' = events \o <<"get", "sleep">>
    /\ idx' = idx + 1
    /\ UNCHANGED <<settlements, failures, pc>>
    /\ UNCHANGED batchOthers

\* except requests.RequestException
FetchFails == InLoop /\ HandleFailure(Iteration(idx, settlements[idx]), "RequestException")

\* except ValueError
ParseFails == InLoop /\ HandleFailure(Iteration(idx, settlements[idx]), "ValueError")

\* the item is parsed and its record built
RecordParsed == InLoop /\ AppendRecord(Iteration(idx, settlements[idx]))

\* parse_settlement_page raises something else than ValueError
ParseRaises == InLoop /\ Propagate(Iteration(idx, settlements[idx]), "try")

\* the attribute coercion raises, outside the try block
BuildRaises == InLoop /\ Propagate(Iteration(idx, settlements[idx]), "build")

\* return parsed, failures
Return ==
    /\ pc = "loop"
    /\ idx > Len(settlements)
    /\ pc' = "returned"
    /\ UNCHANGED <<settlements, idx, parsed, failures, events>>
    /\ UNCHANGED batchOthers

(***************************************************************************)
(* mercator_to_lonlat                                                      *)
(* Web Mercator coordinates are taken on the grid of quarters of           *)
(* ORIGIN_SHIFT; degrees are in millionths.  lon = (x / ORIGIN_SHIFT)*180; *)
(* lat = 180/pi * (2*atan(exp(lat_raw*pi/180)) - pi/2), tabulated on the   *)
(* grid.                                                                   *)
(***************************************************************************)
Gudermann ==
    [b \in 0..4 |->
        CASE b = 0 -> 0
          [] b = 1 -> 40979898
          [] b = 2 -> 66513260
          [] b = 3 -> 79171335
          [] OTHER -> 85051129]

mercator_to_lonlat(x, y) ==
    LET lon == (x * 180 * 1000000) \div 4
        lat == IF y >= 0 THEN Gudermann[y] ELSE -Gudermann[-y]
    IN  <<lon, lat>>

(***************************************************************************)
(* convert_geometry                                                        *)
(* An ESRI geometry dict: kind tells which keys it has ("empty": the dict  *)
(* is empty or the feature has none).  A GeoJSON geometry: type and        *)
(* coordinates, type "null" for None.                                      *)
(***************************************************************************)
esriGeometryPoint == <<"e","s","r","i","G","e","o","m","e","t","r","y","P","o","i","n","t">>
esriGeometryPolyline == <<"e","s","r","i","G","e","o","m","e","t","r","y","P","o","l","y","l","i","n","e">>
esriGeometryPolygon == <<"e","s","r","i","G","e","o","m","e","t","r","y","P","o","l","y","g","o","n">>
esriGeometryMultipoint == <<"e","s","r","i","G","e","o","m","e","t","r","y","M","u","l","t","i","p","o","i","n","t">>

EsriEmpty == [kind |-> "empty", x |-> 0, y |-> 0, paths |-> <<>>, rings |-> <<>>]
EsriPoint(x, y) == [kind |-> "point", x |-> x, y |-> y, paths |-> <<>>, rings |-> <<>>]
EsriPaths(ps) == [kind |-> "paths", x |-> 0, y |-> 0, paths |-> ps, rings |-> <<>>]
EsriRings(rs) == [kind |-> "rings", x |-> 0, y |-> 0, paths |-> <<>>, rings |-> rs]

GeoJSON(type, coordinates) == [type |-> type, coordinates |-> coordinates]
GeoNull == GeoJSON("null", <<>>)

\* for x, y in ring: converted_ring.append([lon, lat])
ConvertLine(line) == [i \in 1..Len(line) |-> mercator_to_lonlat(line[i][1], line[i][2])]

\* the converted lines, the empty ones dropped
RECURSIVE ConvertLines(_)
ConvertLines(lines) ==
    IF lines = <<>> THEN <<>>
    ELSE LET line == ConvertLine(lines[1])
         IN  (IF line # <<>> THEN <<line>> ELSE <<>>) \o ConvertLines(Tail(lines))

\* a faulty variant of PolygonsOfRings: one polygon, the later rings as its holes
PolygonsOfRingsAsHoles(rings) == <<rings>>
\* [[ring] for ring in converted]
PolygonsOfRings(rings) == [i \in 1..Len(rings) |-> <<rings[i]>>]

\* a faulty variant of UnsupportedGeometry: the function ends without a raise
FallThroughAsNull(geometry_type_) == Ret(GeoNull)
\* raise ValueError(f"Unsupported geometry type: {geometry_type}")
UnsupportedGeometry(geometry_type_) == Raise("ValueError", GeoNull)

convert_geometry(geometry_, geometry_type_) ==
    IF geometry_.kind = "empty" THEN Ret(GeoNull)
    ELSE IF geometry_type_ = esriGeometryPoint
    THEN IF geometry_.kind # "point" THEN Raise("KeyError", GeoNull)
         ELSE Ret(GeoJSON("Point", mercator_to_lonlat(geometry_.x, geometry_.y)))
    ELSE IF geometry_type_ = esriGeometryPolyline
    THEN LET line_strings == ConvertLines(geometry_.paths)
         IN  IF line_strings = <<>> THEN Ret(GeoNull)
             ELSE IF Len(line_strings) = 1 THEN Ret(GeoJSON("LineString", line_strings[1]))
             ELSE Ret(GeoJSON("MultiLineString", line_strings))
    ELSE IF geometry_type_ = esriGeometryPolygon
    THEN LET rings == ConvertLines(geometry_.rings)
         IN  IF rings = <<>> THEN Ret(GeoNull)
             ELSE IF Len(rings) = 1 THEN Ret(GeoJSON("Polygon", rings))
             ELSE Ret(GeoJSON("MultiPolygon", PolygonsOfRings(rings)))
    ELSE UnsupportedGeometry(geometry_type_)

(***************************************************************************)
(* The geometries and discriminants convert_geometry is applied to.        *)
(***************************************************************************)
GridPoints == {<<0, 0>>, <<1, 2>>}
MaxPaths == 2
MaxPathLen == 2
Geometries ==
    {EsriEmpty}
        \cup {EsriPoint(p[1], p[2]) : p \in GridPoints \cup {<<-2, -4>>}}
        \cup {EsriPaths(ps) : ps \in SeqsUpTo(SeqsUpTo(GridPoints, MaxPathLen), MaxPaths)}
        \cup {EsriRings(rs) : rs \in SeqsUpTo(SeqsUpTo(GridPoints, MaxRingLen), MaxRings)}
SupportedTypes == {esriGeometryPoint, esriGeometryPolyline, esriGeometryPolygon}
GeometryTypes ==
    SupportedTypes \cup {esriGeometryMultipoint, <<"e","s","r","i">>, <<>>}

GeomIdle ==
    /\ geometry = EsriEmpty /\ geometry_type = <<>> /\ converted = NotCalled(GeoNull)

ConvertGeometry ==
    /\ converted.exc = Pending
    /\ converted' = convert_geometry(geometry, geometry_type)
    /\ UNCHANGED <<geometry, geometry_type>>
    /\ UNCHANGED geomOthers

(***************************************************************************)
(* sanitize_name                                                           *)
(***************************************************************************)
\* re.sub(r"[^a-z0-9]+", "_", s): each run of other characters becomes one "_"
RECURSIVE SubNonAlnum(_)
SubNonAlnum(s) ==
    IF s = <<>> THEN <<>>
    ELSE IF IsLowerAlnum(s[1]) THEN <<s[1]>> \o SubNonAlnum(Tail(s))
    ELSE IF Len(s) > 1 /\ ~IsLowerAlnum(s[2]) THEN SubNonAlnum(Tail(s))
    ELSE <<"_">> \o SubNonAlnum(Tail(s))

\* .strip("_")
RECURSIVE StripUnderscores(_)
StripUnderscores(s) ==
    IF s # <<>> /\ s[1] = "_" THEN StripUnderscores(Tail(s))
    ELSE IF s # <<>> /\ s[Len(s)] = "_" THEN StripUnderscores(SubSeq(s, 1, Len(s) - 1))
    ELSE s

DefaultLayerName == <<"l","a","y","e","r">>
sanitize_name(name) ==
    LET slug == StripUnderscores(SubNonAlnum(Lower(name)))
    IN  IF slug # <<>> THEN slug ELSE DefaultLayerName

(***************************************************************************)
(* export_feature_collection                                               *)
(* A sub-layer's name and a layer's title and id are strings, <<>> when    *)
(* the key is missing.                                                     *)
(***************************************************************************)
FilePrefix == <<"a","t","l","a","s","_","o","f","_","i","n","f","o","r","m","a","l","i","t","y","_">>
FileSuffix == <<".","g","e","o","j","s","o","n">>
SourceAppId == "110e3d637cce4fe7bc41c4e5cd3f9d21"

Feature(geom, attributes) == [geometry |-> geom, attributes |-> attributes]

\* the features converted so far, or the exception of the first that raises
RECURSIVE ConvertFeatures(_, _)
ConvertFeatures(features, gtype) ==
    IF features = <<>> THEN Ret(<<>>)
    ELSE LET g == convert_geometry(features[1].geometry, gtype)
             rest == ConvertFeatures(Tail(features), gtype)
         IN  IF Raised(g) THEN Raise(g.exc, <<>>)
             ELSE IF Raised(rest) THEN rest
             ELSE IF g.val.type = "null" THEN rest
             ELSE Ret(<<[type |-> "Feature", geometry |-> g.val,
                         properties |-> features[1].attributes]>> \o rest.val)

NoExport == [path |-> <<>>, payload |-> <<>>]

export_feature_collection(layer, fc_layer, source_app_id) ==
    LET layer_name ==
            IF fc_layer.name # <<>> THEN fc_layer.name
            ELSE IF layer.title # <<>> THEN layer.title
            ELSE IF layer.id # <<>> THEN layer.id
            ELSE DefaultLayerName
        file_name == FilePrefix \o sanitize_name(layer_name) \o FileSuffix
        geojson_features == ConvertFeatures(fc_layer.features, fc_layer.geometryType)
    IN  IF Raised(geojson_features) THEN Raise(geojson_features.exc, NoExport)
        ELSE IF geojson_features.val = <<>> THEN Ret(NoExport)
        ELSE Ret([path |-> file_name,
                  payload |->
                      [type |-> "FeatureCollection",
                       features |-> geojson_features.val,
                       metadata |->
                           [source_app_id |-> source_app_id,
                            source_layer_id |-> layer.id,
                            source_layer_title |-> layer.title,
                            geometry_type |-> fc_layer.geometryType,
                            feature_count |-> Len(geojson_features.val)]]])

(***************************************************************************)
(* The web maps process_webmap is run on.                                  *)
(***************************************************************************)
ClosedRing == <<<<0, 0>>, <<1, 2>>, <<0, 0>>>>
PolygonFeature == Feature(EsriRings(<<ClosedRing>>), "slum")
TwoRingFeature == Feature(EsriRings(<<ClosedRing, <<<<1, 2>>, <<0, 0>>, <<1, 2>>>>>>), "slum")
EmptyFeature == Feature(EsriEmpty, "none")
PointFeature == Feature(EsriPoint(1, 2), "market")

FcLayer(gtype, name, features) ==
    [geometryType |-> gtype, name |-> name, features |-> features]
FcLayers ==
    { FcLayer(esriGeometryPolygon, <<"S","l","u","m","s"," ","A">>, <<PolygonFeature, TwoRingFeature>>),
      FcLayer(esriGeometryPolygon, <<"s","l","u","m","s","-","a">>, <<EmptyFeature, PolygonFeature>>),
      FcLayer(esriGeometryPolygon, <<"P","a","r","k","s">>, <<>>),
      FcLayer(<<>>, <<"N","o","t","e","s">>, <<PolygonFeature>>),
      FcLayer(<<" ", " ">>, <<"D","r","a","f","t","s">>, <<PolygonFeature>>),
      FcLayer(esriGeometryMultipoint, <<"M","a","r","k","e","t","s">>, <<EmptyFeature, PointFeature>>),
      FcLayer(esriGeometryMultipoint, <<"W","e","l","l","s">>, <<EmptyFeature>>),
      FcLayer(esriGeometryPoint, <<>>, <<PointFeature>>) }

MaxSubLayers == 2
OperationalLayer(fc) ==
    [id |-> <<"l","a","y","e","r","_","1">>, title |-> <<"S","l","u","m","s","_","A">>, featureCollection |-> fc]
OperationalLayers ==
    {OperationalLayer([present |-> FALSE, layers |-> <<>>])}
        \cup {OperationalLayer([present |-> TRUE, layers |-> ls]) :
                ls \in SeqsUpTo(FcLayers, MaxSubLayers)}

(***************************************************************************)
(* process_webmap: layer_pos is the position of the two nested loops; disk *)
(* maps each file of the output directory to its contents.                 *)
(***************************************************************************)
WebmapIdle ==
    /\ data = <<>> /\ layer_pos = [l |-> 0, s |-> 0] /\ disk = <<>>
    /\ exported_paths = <<>> /\ wm_pc = "idle"

AtLayer == wm_pc = "loop" /\ layer_pos.l <= Len(data)
CurLayer == data[layer_pos.l]
AtSubLayer ==
    /\ AtLayer
    /\ CurLayer.featureCollection.present
    /\ layer_pos.s <= Len(CurLayer.featureCollection.layers)
CurSubLayer == CurLayer.featureCollection.layers[layer_pos.s]

\* output_path.write_text(...): creates the file or replaces its contents
WriteText(files, path, text) ==
    [p \in (DOMAIN files) \cup {path} |-> IF p = path THEN text ELSE files[p]]

\* if not feature_collection: continue
SkipLayer ==
    /\ AtLayer
    /\ ~CurLayer.featureCollection.present
    /\ layer_pos' = [l |-> layer_pos.l + 1, s |-> 1]
    /\ UNCHANGED <<data, disk, exported_paths, wm_pc>>
    /\ UNCHANGED webmapOthers

\* the inner loop is exhausted
LayerDone ==
    /\ AtLayer
    /\ CurLayer.featureCollection.present
    /\ layer_pos.s > Len(CurLayer.featureCollection.layers)
    /\ layer_pos' = [l |-> layer_pos.l + 1, s |-> 1]
    /\ UNCHANGED <<data, disk, exported_paths, wm_pc>>
    /\ UNCHANGED webmapOthers

\* if not geometry_type: continue
SkipSubLayer ==
    /\ AtSubLayer
    /\ Strip(CurSubLayer.geometryType) = <<>>
    /\ layer_pos' = [layer_pos EXCEPT !.s = @ + 1]
    /\ UNCHANGED <<data, disk, exported_paths, wm_pc>>
    /\ UNCHANGED webmapOthers

\* exported = export_feature_collection(...); exported_paths.append(exported)
ExportSubLayer ==
    /\ AtSubLayer
    /\ Strip(CurSubLayer.geometryType) # <<>>
    /\ LET exported == export_feature_collection(CurLayer, CurSubLayer, SourceAppId)
       IN  /\ ~Raised(exported)
           /\ exported.val.path # <<>>
           /\ disk' = WriteText(disk, exported.val.path, exported.val.payload)
           /\ exported_paths' = Append(exported_paths, exported.val.path)
    /\ layer_pos' = [layer_pos EXCEPT !.s = @ + 1]
    /\ UNCHANGED <<data, wm_pc>>
    /\ UNCHANGED webmapOthers

\* export_feature_collection returned None
ExportNothing ==
    /\ AtSubLayer
    /\ Strip(CurSubLayer.geometryType) # <<>>
    /\ LET exported == export_feature_collection(CurLayer, CurSubLayer, SourceAppId)
       IN  ~Raised(exported) /\ exported.val.path = <<>>
    /\ layer_pos' = [layer_pos EXCEPT !.s = @ + 1]
    /\ UNCHANGED <<data, disk, exported_paths, wm_pc>>
    /\ UNCHANGED webmapOthers

\* convert_geometry raised: nothing between it and the caller of process_webmap catches
ExportRaises ==
    /\ AtSubLayer
    /\ Strip(CurSubLayer.geometryType) # <<>>
    /\ LET exported == export_feature_collection(CurLayer, CurSubLayer, SourceAppId)
       IN  /\ Raised(exported)
           /\ wm_pc' = exported.exc
    /\ UNCHANGED <<data, layer_pos, disk, exported_paths>>
    /\ UNCHANGED webmapOthers

\* return exported_paths
WebmapReturn ==
    /\ wm_pc = "loop"
    /\ layer_pos.l > Len(data)
    /\ wm_pc' = "returned"
    /\ UNCHANGED <<data, layer_pos, disk, exported_paths>>
    /\ UNCHANGED webmapOthers

(***************************************************************************)
(* write_shapefile                                                         *)
(* sf_files: the loose component files on disk; sf_zip: the members of the *)
(* archive; sf_pos: the position of the loop the call is in.               *)
(***************************************************************************)
Suffixes == <<".cpg", ".dbf", ".prj", ".shp", ".shx">>
Components == {Suffixes[i] : i \in 1..Len(Suffixes)}

ShapeIdle ==
    /\ records = <<>> /\ sf_files = {} /\ sf_zip = <<>> /\ sf_pos = 0 /\ sf_pc = "idle"

\* shapefile.Writer(str(output_base)) opens .shp, .shx and .dbf; the fields are declared
OpenWriter ==
    /\ sf_pc = "writer"
    /\ sf_files' = sf_files \cup {".shp", ".shx", ".dbf"}
    /\ sf_pc' = "records"
    /\ UNCHANGED <<records, sf_zip, sf_pos>>
    /\ UNCHANGED shapeOthers

\* writer.record(...); writer.poly([record.geometry])
WriteRecord ==
    /\ sf_pc = "records"
    /\ sf_pos <= Len(records)
    /\ sf_pos' = sf_pos + 1
    /\ UNCHANGED <<records, sf_files, sf_zip, sf_pc>>
    /\ UNCHANGED shapeOthers

\* writer.close()
CloseWriter ==
    /\ sf_pc = "records"
    /\ sf_pos > Len(records)
    /\ sf_pc' = "prj"
    /\ UNCHANGED <<records, sf_files, sf_zip, sf_pos>>
    /\ UNCHANGED shapeOthers

\* prj_path.write_text(WGS84_PRJ)
WritePrj ==
    /\ sf_pc = "prj"
    /\ sf_files' = sf_files \cup {".prj"}
    /\ sf_pc' = "cpg"
    /\ UNCHANGED <<records, sf_zip, sf_pos>>
    /\ UNCHANGED shapeOthers

\* cpg_path.write_text("UTF-8"); with zipfile.ZipFile(zip_path, "w") as archive
WriteCpgOpenArchive ==
    /\ sf_pc = "cpg"
    /\ sf_files' = sf_files \cup {".cpg"}
    /\ sf_zip' = <<>>
    /\ sf_pos' = 1
    /\ sf_pc' = "archive"
    /\ UNCHANGED records
    /\ UNCHANGED shapeOthers

\* another process removes a component before it is archived
ComponentRemoved ==
    /\ sf_pc = "archive"
    /\ \E f \in sf_files : sf_files' = sf_files \ {f}
    /\ UNCHANGED <<records, sf_zip, sf_pos, sf_pc>>
    /\ UNCHANGED shapeOthers

\* archive.write(file_path, arcname=...)
ArchiveWrite ==
    /\ sf_pc = "archive"
    /\ sf_pos <= Len(Suffixes)
    /\ Suffixes[sf_pos] \in sf_files
    /\ sf_zip' = Append(sf_zip, Suffixes[sf_pos])
    /\ sf_pos' = sf_pos + 1
    /\ UNCHANGED <<records, sf_files, sf_pc>>
    /\ UNCHANGED shapeOthers

\* archive.write raises (FileNotFoundError for a missing component, OSError from
\* the archive): the with block closes the archive and the exception leaves
\* write_shapefile before the unlink loop
ArchiveWriteRaises ==
    /\ sf_pc = "archive"
    /\ sf_pos <= Len(Suffixes)
    /\ sf_pc' = "raised"
    /\ UNCHANGED <<records, sf_files, sf_zip, sf_pos>>
    /\ UNCHANGED shapeOthers

\* the with block ends
ArchiveClosed ==
    /\ sf_pc = "archive"
    /\ sf_pos > Len(Suffixes)
    /\ sf_pos' = 1
    /\ sf_pc' = "cleanup"
    /\ UNCHANGED <<records, sf_files, sf_zip>>
    /\ UNCHANGED shapeOthers

\* if file_path.exists(): file_path.unlink()
Unlink ==
    /\ sf_pc = "cleanup"
    /\ sf_pos <= Len(Suffixes)
    /\ sf_files' = sf_files \ {Suffixes[sf_pos]}
    /\ sf_pos' = sf_pos + 1
    /\ UNCHANGED <<records, sf_zip, sf_pc>>
    /\ UNCHANGED shapeOthers

\* return zip_path
ShapefileReturn ==
    /\ sf_pc = "cleanup"
    /\ sf_pos > Len(Suffixes)
    /\ sf_pc' = "returned"
    /\ UNCHANGED <<records, sf_files, sf_zip, sf_pos>>
    /\ UNCHANGED shapeOthers

(***************************************************************************)
(* Specifications: one per program part, the other parts idle.             *)
(***************************************************************************)
CoerceInit ==
    /\ raw_value \in RawValues
    /\ float_result = NotCalled(None)
    /\ int_result = NotCalled(None)
    /\ date_result = NotCalled(DateVal(<<>>, None))
    /\ BatchIdle /\ GeomIdle /\ WebmapIdle /\ ShapeIdle
CoerceNext == CallSafeFloat \/ CallSafeInt \/ CallFormatDate
SpecCoerce == CoerceInit /\ [][CoerceNext]_vars

BatchInit ==
    /\ \E ps \in SeqsUpTo(Pages, MaxItems) :
          settlements = [i \in 1..Len(ps) |-> SettlementRecord(i, ps[i])]
    /\ idx = 1
    /\ parsed = <<>>
    /\ failures = <<>>
    /\ events = <<>>
    /\ pc = "loop"
    /\ CoerceIdle /\ GeomIdle /\ WebmapIdle /\ ShapeIdle
BatchNext ==
    FetchFails \/ ParseFails \/ RecordParsed \/ ParseRaises \/ BuildRaises \/ Return
SpecBatch == BatchInit /\ [][BatchNext]_vars

GeomInit ==
    /\ geometry \in Geometries
    /\ geometry_type \in GeometryTypes
    /\ converted = NotCalled(GeoNull)
    /\ CoerceIdle /\ BatchIdle /\ WebmapIdle /\ ShapeIdle
GeomNext == ConvertGeometry
SpecGeom == GeomInit /\ [][GeomNext]_vars

WebmapInit ==
    /\ data \in SeqsUpTo(OperationalLayers, MaxLayers)
    /\ layer_pos = [l |-> 1, s |-> 1]
    /\ disk = <<>>
    /\ exported_paths = <<>>
    /\ wm_pc = "loop"
    /\ CoerceIdle /\ BatchIdle /\ GeomIdle /\ ShapeIdle
WebmapNext ==
    \/ SkipLayer \/ LayerDone \/ SkipSubLayer \/ ExportSubLayer
    \/ ExportNothing \/ ExportRaises \/ WebmapReturn
SpecWebmap == WebmapInit /\ [][WebmapNext]_vars

ShapeInit ==
    /\ \E n \in 0..MaxRecords : records = [i \in 1..n |-> i]
    /\ sf_files = {}
    /\ sf_zip = <<>>
    /\ sf_pos = 1
    /\ sf_pc = "writer"
    /\ CoerceIdle /\ BatchIdle /\ GeomIdle /\ WebmapIdle
ShapeNext ==
    \/ OpenWriter \/ WriteRecord \/ CloseWriter \/ WritePrj \/ WriteCpgOpenArchive
    \/ ComponentRemoved \/ ArchiveWrite \/ ArchiveWriteRaises \/ ArchiveClosed
    \/ Unlink \/ ShapefileReturn
SpecShapefile == ShapeInit /\ [][ShapeNext]_vars

(***************************************************************************)
(* Properties                                                              *)
(***************************************************************************)
InParsed(i) == \E k \in 1..Len(parsed) : parsed[k].rec_id = i
InFailures(i) == \E k \in 1..Len(failures) : failures[k].settlement = i

\* C1: whatever stage of whatever item fails, build_parsed_records returns, and
\* every source item is then in exactly one of the success and the failure list.
C1_EveryItemAccounted ==
    pc \notin {"idle", "loop"} =>
        /\ pc = "returned"
        /\ \A i \in 1..Len(settlements) : InParsed(i) # InFailures(i)

\* C2: the k-th successful record has id k, whichever items failed.
C2_IdsSequential == \A k \in 1..Len(parsed) : parsed[k].rec_id = k

\* C8: after every page request, of an item that succeeds or fails, the delay
\* elapses before the next request is issued.
C8_DelayAfterEachFetch ==
    \A i \in 1..(Len(events) - 1) : events[i] = "get" => events[i + 1] = "sleep"

Converted == converted.exc # Pending
NonEmptyRings == SelectSeq(geometry.rings, LAMBDA r : r # <<>>)

\* C3: for esriGeometryPolygon the empty rings are dropped; no ring left gives
\* null, one ring a Polygon of exactly that ring, k > 1 rings a MultiPolygon of k
\* polygons in source order, each of exactly one ring.
C3_PolygonRings ==
    (Converted /\ geometry_type = esriGeometryPolygon) =>
        /\ ~Raised(converted)
        /\ IF geometry.kind = "empty" \/ Len(NonEmptyRings) = 0
           THEN converted.val = GeoNull
           ELSE IF Len(NonEmptyRings) = 1
           THEN /\ converted.val.type = "Polygon"
                /\ converted.val.coordinates = <<ConvertLine(NonEmptyRings[1])>>
           ELSE /\ converted.val.type = "MultiPolygon"
                /\ Len(converted.val.coordinates) = Len(NonEmptyRings)
                /\ \A i \in 1..Len(NonEmptyRings) :
                      converted.val.coordinates[i] = <<ConvertLine(NonEmptyRings[i])>>

\* a MultiPolygon was produced from a geometry one of whose rings was dropped
C3_Witness ==
    /\ Converted
    /\ geometry_type = esriGeometryPolygon
    /\ converted.val.type = "MultiPolygon"
    /\ Len(NonEmptyRings) < Len(geometry.rings)

IsClosed(ring) == ring # <<>> /\ ring[1] = ring[Len(ring)]

\* C4: every ring of a polygon produced by convert_geometry is closed.
C4_RingsClosed ==
    /\ (Converted /\ converted.val.type = "Polygon") =>
          \A i \in 1..Len(converted.val.coordinates) : IsClosed(converted.val.coordinates[i])
    /\ (Converted /\ converted.val.type = "MultiPolygon") =>
          \A i \in 1..Len(converted.val.coordinates) :
              \A j \in 1..Len(converted.val.coordinates[i]) :
                  IsClosed(converted.val.coordinates[i][j])

\* C5 as stated: for every geometry, an empty one included, a discriminant other
\* than the three supported ones makes convert_geometry fail with the
\* unsupported-geometry error.
C5_UnsupportedAlwaysFails ==
    (Converted /\ geometry_type \notin SupportedTypes) => converted.exc = "ValueError"

\* C5 as amended: convert_geometry returns null for an empty or missing geometry
\* whatever the discriminant; for every non-empty geometry a discriminant other
\* than the three supported ones fails with the unsupported-geometry error.
C5_UnsupportedFailsUnlessEmpty ==
    (Converted /\ geometry_type \notin SupportedTypes) =>
        IF geometry.kind = "empty"
        THEN converted = Ret(GeoNull)
        ELSE converted.exc = "ValueError"

\* a non-empty geometry was converted under an unsupported discriminant
C5_Witness ==
    /\ Converted
    /\ geometry_type = esriGeometryMultipoint
    /\ geometry.kind = "rings"
    /\ converted.exc = "ValueError"

\* C6: an unsupported geometry is skipped on its own: process_webmap does not
\* abort, and goes through every layer of the web map.
C6_UnsupportedFeatureSkipped ==
    wm_pc \notin {"idle", "loop"} => (wm_pc = "returned" /\ layer_pos.l > Len(data))

\* C7: when process_webmap returns, there are as many files on disk as exported
\* sub-layers.
C7_OneFilePerExportedLayer ==
    wm_pc = "returned" => Cardinality(DOMAIN disk) = Len(exported_paths)

\* C9: when write_shapefile ends, by return or by exception, none of the five
\* loose component files is on disk.
C9_NoOrphanedComponents ==
    sf_pc \in {"returned", "raised"} => sf_files \cap Components = {}

\* C10: _safe_float, _safe_int and _format_date return for every raw value.
C10_CoercionTotal ==
    /\ float_result.exc \in {Pending, NoExc}
    /\ int_result.exc \in {Pending, NoExc}
    /\ date_result.exc \in {Pending, NoExc}

====
